---- MODULE Spec2Model ----
(***************************************************************************)
(* A model of src/server.js, the Express application that brokers voice    *)
(* calls, SMS and one-time passcodes through the telephony provider.       *)
(*                                                                         *)
(* The process keeps no data of its own.  What the model records is the    *)
(* table of the requests the server has received, in arrival order: for    *)
(* each one the request itself, the position of its handler (suspended on  *)
(* the provider's promise, or finished), the handler's locals, the         *)
(* provider calls it issued and the responses it sent.  The table is what  *)
(* an observer of the HTTP port and of the provider's API would write      *)
(* down; the handlers never read it.                                       *)
(***************************************************************************)
EXTENDS Integers, Sequences, FiniteSets, TLC

VARIABLES
    env,    \* process.env, fixed when the process starts
    proc,   \* "running", or "exited" after process.exit
    reqs    \* the request table

vars == <<env, proc, reqs>>

(***************************************************************************)
(* Bounds of the model.                                                    *)
(***************************************************************************)
\* The number of requests a behaviour receives.
MaxRequests == 2
\* Math.random() is modelled as k / RandDen for an integer 0 <= k < RandDen.
RandDen == 1000000

(***************************************************************************)
(* Constants of the program.                                               *)
(***************************************************************************)
TokenTtl == 3600
DialTimeout == 30
OtpBase == 100000
OtpSpan == 900000
OtpLength == 6

(***************************************************************************)
(* JavaScript values.  A string field is a TLA+ string, and the value of a *)
(* field that is not there is Undefined.  The OTP code, whose characters   *)
(* matter, is a sequence of ASCII codes, and NoCode is the undefined one.  *)
(***************************************************************************)
Undefined == "undefined"
NoCode == << -1 >>

\* !v is false: v is there and is not the empty string.
Truthy(v) == v # Undefined /\ v # ""
TruthyCode(c) == c # NoCode /\ c # << >>

\* a || b
OrElse(a, b) == IF Truthy(a) THEN a ELSE b

AsciiDigits == 48 .. 57

(***************************************************************************)
(* The configuration: process.env as the handlers read it.                 *)
(***************************************************************************)
SystemNumber == "+15550000000"

EnvAllSet ==
    [TWILIO_ACCOUNT_SID |-> "AC1", TWILIO_API_KEY |-> "SK1",
     TWILIO_API_SECRET |-> "secret", TWILIO_TWIML_APP_SID |-> "AP1",
     TWILIO_PHONE_NUMBER |-> SystemNumber]

\* The configurations the process runs with.  twilio(accountSid, authToken),
\* lines 16-19, throws while the module loads if either is missing, so a
\* process that serves requests has both; the API key, its secret and the
\* TwiML application are read only when a token is requested.
Envs ==
    { EnvAllSet,
      [EnvAllSet EXCEPT !.TWILIO_API_KEY = Undefined],
      [EnvAllSet EXCEPT !.TWILIO_API_SECRET = Undefined] }

(***************************************************************************)
(* Requests.                                                               *)
(***************************************************************************)
BlankQuery == [To |-> Undefined, identity |-> Undefined]
BlankBody ==
    [phoneNumber |-> Undefined, code |-> NoCode, toNumber |-> Undefined,
     fromNumber |-> Undefined, message |-> Undefined, To |-> Undefined,
     Body |-> Undefined]

\* A request for `path` (and, under /api/calls/end/, the segment `seg`
\* that follows it) whose body the parsers accept.
Request(method, path) ==
    [method |-> method, path |-> path, seg |-> "", protocol |-> "http",
     host |-> "api.example", parse |-> "ok", query |-> BlankQuery,
     body |-> BlankBody]

\* req.path
ReqPath(r) == r.path \o r.seg

(***************************************************************************)
(* Responses.  `data` holds the fields of the body other than success and  *)
(* message, in the order the handler writes them.                          *)
(***************************************************************************)
Json(status, success, message, data) ==
    [status |-> status, type |-> "application/json", success |-> success,
     message |-> message, data |-> data]

Xml(markup) ==
    [status |-> 200, type |-> "text/xml", success |-> "none",
     message |-> "", data |-> markup]

Empty(status) ==
    [status |-> status, type |-> "none", success |-> "none",
     message |-> "", data |-> << >>]

(***************************************************************************)
(* A row of the request table.                                             *)
(*   handler  the middleware or route handler that answered or holds it    *)
(*   pc       "await": suspended on the provider's promise; "done"         *)
(*   now      what Date.now() returned to the handler ("" if not read)     *)
(*   rnd      the k of the k / RandDen Math.random() returned (-1: unread) *)
(*   otp      the handler's local `otp` (NoCode if it has none)            *)
(*   calls    the provider calls the handler issued                        *)
(*   outcome  how the provider settled the promise (NoOutcome before)      *)
(*   resp     the responses the handler sent                               *)
(***************************************************************************)
NoOutcome == [ok |-> "pending", sid |-> "", status |-> "", message |-> ""]

Row(r, handler, pc, now, rnd, otp, calls, resp) ==
    [req |-> r, handler |-> handler, pc |-> pc, now |-> now, rnd |-> rnd,
     otp |-> otp, calls |-> calls, outcome |-> NoOutcome, resp |-> resp]

\* A handler that answers without the clock, the random source or the provider.
Answered(r, handler, response) ==
    Row(r, handler, "done", "", -1, NoCode, << >>, << response >>)

Init ==
    /\ env \in Envs
    /\ proc = "running"
    /\ reqs = << >>

\* The server takes request r and runs its handler up to its first await or
\* to its end, which leaves `row` in the table.
Receive(row) ==
    /\ proc = "running"
    /\ Len(reqs) < MaxRequests
    /\ reqs' = Append(reqs, row)
    /\ UNCHANGED <<env, proc>>

(***************************************************************************)
(* The middleware chain, lines 11-13: cors() answers every OPTIONS request *)
(* itself (a preflight, 204, no next()), and a body the parsers reject is  *)
(* passed to the error handler with next(err).                             *)
(***************************************************************************)
PassesMiddleware(r) == r.method # "OPTIONS" /\ r.parse = "ok"

CorsPreflight(A) ==
    \E r \in A :
        /\ r.method = "OPTIONS"
        /\ Receive(Answered(r, "cors", Empty(204)))

\* The error-handling middleware, lines 356-363: where next(err) arrives.
ErrorResponse(errMessage) ==
    Json(500, "false", "Internal server error", << errMessage >>)

BodyParseError(A) ==
    \E r \in A :
        /\ r.method # "OPTIONS"
        /\ r.parse = "error"
        /\ Receive(Answered(r, "errorHandler", ErrorResponse("parse failed")))

(***************************************************************************)
(* Routing.  Express serves a HEAD request with the GET route of the path  *)
(* (the handler runs as for GET; the body it writes is not transmitted),   *)
(* and :callSid matches one segment of at least one character.             *)
(***************************************************************************)
EndCallPrefix == "/api/calls/end/"

Routes ==
    { <<"GET", "/">>, <<"GET", "/api/voice/token">>,
      <<"POST", "/api/otp/send">>, <<"POST", "/api/otp/verify">>,
      <<"POST", "/api/calls/initiate">>, <<"DELETE", EndCallPrefix>>,
      <<"POST", "/api/calls/twiml">>, <<"POST", "/api/calls/status">>,
      <<"POST", "/api/messages/send">>, <<"POST", "/api/messages/receive">> }

Matches(r, method, path) ==
    /\ r.method = method \/ (method = "GET" /\ r.method = "HEAD")
    /\ r.path = path
    /\ IF path = EndCallPrefix THEN r.seg # "" ELSE r.seg = ""

Registered(r) == \E rt \in Routes : Matches(r, rt[1], rt[2])

\* The request reaches the handler registered for `method` and `path`.
Routed(r, method, path) == PassesMiddleware(r) /\ Matches(r, method, path)

\* The 404 middleware, lines 348-354.  (_NoPath: a variant that leaves the
\* path out of the body.)
NotFoundResponse_NoPath(r) ==
    Json(404, "false", "Endpoint not found", << >>)
NotFoundResponse(r) ==
    Json(404, "false", "Endpoint not found", << ReqPath(r) >>)

NotFound(A) ==
    \E r \in A :
        /\ PassesMiddleware(r)
        /\ ~Registered(r)
        /\ Receive(Answered(r, "notFound", NotFoundResponse(r)))

(***************************************************************************)
(* The clock: the values Date.now() may return.                            *)
(***************************************************************************)
Times == {"1700000000000", "1700000000001"}

(***************************************************************************)
(* GET /, lines 26-38.                                                     *)
(***************************************************************************)
HealthResponse(t) ==
    Json(200, "none", "", << "Torrz Real VoIP Backend Running!", t >>)

HealthCheck(A) ==
    \E r \in A, t \in Times :
        /\ Routed(r, "GET", "/")
        /\ Receive(Row(r, "health", "done", t, -1, NoCode, << >>,
                       << HealthResponse(t) >>))

(***************************************************************************)
(* GET /api/voice/token, lines 42-86.                                      *)
(***************************************************************************)
\* What new AccessToken(accountSid, keySid, secret, options) throws: the
\* message of its error, "" when it throws nothing.
AccessTokenError(e) ==
    IF ~Truthy(e.TWILIO_ACCOUNT_SID) THEN "accountSid is required"
    ELSE IF ~Truthy(e.TWILIO_API_KEY) THEN "keySid is required"
    ELSE IF ~Truthy(e.TWILIO_API_SECRET) THEN "secret is required"
    ELSE ""

\* error.toString()
ErrorToString(message) ==
    IF message = "" THEN "Error" ELSE "Error: " \o message

\* The signed token, as the claims it carries.
Jwt(e, identity) ==
    [iss |-> e.TWILIO_API_KEY, sub |-> e.TWILIO_ACCOUNT_SID,
     identity |-> identity, ttl |-> TokenTtl,
     outgoingApplicationSid |-> e.TWILIO_TWIML_APP_SID, incomingAllow |-> TRUE]

\* The catch block, lines 78-85.  (_Generic: a variant without the try, in
\* which the error reaches the error-handling middleware.)
VoiceTokenCatch_Generic(message) == ErrorResponse(message)
VoiceTokenCatch(message) ==
    Json(500, "false", OrElse(message, "Failed to generate token"),
         << ErrorToString(message) >>)

\* The handler's response; t is what Date.now() returns if it is read.
VoiceTokenResponse(r, e, t) ==
    LET identity == OrElse(r.query.identity, "user_" \o t)
        thrown == AccessTokenError(e)
    IN  IF thrown # ""
        THEN VoiceTokenCatch(thrown)
        ELSE Json(200, "true", "", << Jwt(e, identity), identity, TokenTtl >>)

VoiceToken(A) ==
    \E r \in A :
        /\ Routed(r, "GET", "/api/voice/token")
        /\ \E t \in IF Truthy(r.query.identity) THEN {""} ELSE Times :
              Receive(Row(r, "voiceToken", "done", t, -1, NoCode, << >>,
                          << VoiceTokenResponse(r, env, t) >>))

(***************************************************************************)
(* The provider: the promises of twilioClient.  A call is what the handler *)
(* passes to the client; the provider settles it with a resource (its sid  *)
(* and status) or with an error (its message, which may be empty).         *)
(***************************************************************************)
MessagesCreate(to, from, body) ==
    [api |-> "messages.create", to |-> to, from |-> from, body |-> body,
     url |-> "", statusCallback |-> "", events |-> << >>, sid |-> "",
     status |-> ""]

CallsCreate(url, to, from, statusCallback, events) ==
    [api |-> "calls.create", to |-> to, from |-> from, body |-> << >>,
     url |-> url, statusCallback |-> statusCallback, events |-> events,
     sid |-> "", status |-> ""]

CallsUpdate(sid, status) ==
    [api |-> "calls.update", to |-> "", from |-> "", body |-> << >>,
     url |-> "", statusCallback |-> "", events |-> << >>, sid |-> sid,
     status |-> status]

Resolved(sid, status) ==
    [ok |-> "resolved", sid |-> sid, status |-> status, message |-> ""]

Rejected(message) ==
    [ok |-> "rejected", sid |-> "", status |-> "", message |-> message]

\* The resources the provider may answer a call with.
Resources(call) ==
    IF call.api = "messages.create" THEN {Resolved("SM1", "queued")}
    ELSE IF call.api = "calls.create" THEN {Resolved("CA1", "queued")}
    ELSE {Resolved(call.sid, call.status)}

ErrorMessages == {"", "Authenticate"}

(***************************************************************************)
(* POST /api/otp/send, lines 90-125.                                       *)
(***************************************************************************)
\* floor(k * m / d) for 0 <= k <= d, without leaving 32 bits.
MulDivFloor(k, m, d) ==
    LET x == k * (m \div 1000)
        y == 1000 * (x % d) + k * (m % 1000)
    IN  1000 * (x \div d) + y \div d

\* Math.floor(100000 + Math.random() * 900000), Math.random() being k / RandDen.
\* (_Unpadded: the variant Math.floor(Math.random() * 1000000).)
OtpNumber_Unpadded(k) == MulDivFloor(k, OtpBase + OtpSpan, RandDen)
OtpNumber(k) == OtpBase + MulDivFloor(k, OtpSpan, RandDen)

\* Number.prototype.toString of a natural number: its decimal digits.
RECURSIVE NumberToString(_)
NumberToString(n) ==
    IF n < 10 THEN << 48 + n >>
    ELSE Append(NumberToString(n \div 10), 48 + (n % 10))

\* The template literal of line 104, as its parts.
OtpSmsBody(otp) ==
    << "Your TORRZ verification code is: ", otp, ". Valid for 10 minutes." >>

\* The handler up to its await: the row it leaves.  (_NoReturn: a variant
\* whose validation answers 400 and does not return.)
OtpSendStart_NoReturn(r, e, k) ==
    LET otp == NumberToString(OtpNumber(IF k < 0 THEN 0 ELSE k))
    IN  Row(r, "otpSend", "await", "", k, otp,
            << MessagesCreate(r.body.phoneNumber, e.TWILIO_PHONE_NUMBER,
                              OtpSmsBody(otp)) >>,
            IF ~Truthy(r.body.phoneNumber)
            THEN << Json(400, "false", "Phone number is required", << >>) >>
            ELSE << >>)
OtpSendStart(r, e, k) ==
    IF ~Truthy(r.body.phoneNumber)
    THEN Answered(r, "otpSend",
                  Json(400, "false", "Phone number is required", << >>))
    ELSE LET otp == NumberToString(OtpNumber(k))
         IN  Row(r, "otpSend", "await", "", k, otp,
                 << MessagesCreate(r.body.phoneNumber, e.TWILIO_PHONE_NUMBER,
                                   OtpSmsBody(otp)) >>,
                 << >>)

\* The handler after its await, when the promise resolved.
OtpSendThen(row, o) ==
    [row EXCEPT !.pc = "done", !.outcome = o,
                !.resp = Append(@, Json(200, "true", "OTP sent successfully",
                                        << o.sid, row.otp >>))]

\* The catch block, when the promise rejected.
OtpSendCatch(row, o) ==
    [row EXCEPT !.pc = "done", !.outcome = o,
                !.resp = Append(@, Json(500, "false",
                                        OrElse(o.message, "Failed to send OTP"),
                                        << >>))]

\* Math.random() is read only past the validation.
OtpSend(A, K) ==
    \E r \in A :
        /\ Routed(r, "POST", "/api/otp/send")
        /\ \E k \in IF Truthy(r.body.phoneNumber) THEN K ELSE {-1} :
              Receive(OtpSendStart(r, env, k))

(***************************************************************************)
(* POST /api/otp/verify, lines 127-159.                                    *)
(***************************************************************************)
\* The test of line 138, on a code that passed the validation.  (_Issued: a
\* variant that also looks for the code among those issued.)
VerifyAccepts_Issued(code) ==
    /\ Len(code) = OtpLength
    /\ \E i \in DOMAIN reqs : reqs[i].otp = code
VerifyAccepts(code) == Len(code) = OtpLength

OtpVerifyResponse(r, t) ==
    IF ~Truthy(r.body.phoneNumber) \/ ~TruthyCode(r.body.code)
    THEN Json(400, "false", "Phone number and code are required", << >>)
    ELSE IF VerifyAccepts(r.body.code)
    THEN Json(200, "true", "Phone number verified successfully",
              << "auth_token_" \o t, r.body.phoneNumber >>)
    ELSE Json(400, "false", "Invalid verification code", << >>)

\* Date.now() is read only when the code is accepted.
OtpVerify(A) ==
    \E r \in A :
        /\ Routed(r, "POST", "/api/otp/verify")
        /\ \E t \in IF OtpVerifyResponse(r, "").status = 200
                    THEN Times ELSE {""} :
              Receive(Row(r, "otpVerify", "done", t, -1, NoCode, << >>,
                          << OtpVerifyResponse(r, t) >>))

(***************************************************************************)
(* POST /api/calls/initiate, lines 163-201.                                *)
(***************************************************************************)
StatusEvents == << "initiated", "ringing", "answered", "completed" >>

\* `${req.protocol}://${req.get('host')}` followed by `path`
CallbackUrl(r, path) == r.protocol \o "://" \o r.host \o path

\* The `from` of the call that is created.  (_Caller: a variant that takes
\* the caller's fromNumber.)
InitiateCallFrom_Caller(r, e) == r.body.fromNumber
InitiateCallFrom(r, e) == e.TWILIO_PHONE_NUMBER

InitiateCallStart(r, e) ==
    IF ~Truthy(r.body.toNumber) \/ ~Truthy(r.body.fromNumber)
    THEN Answered(r, "initiateCall",
                  Json(400, "false",
                       "Both toNumber and fromNumber are required", << >>))
    ELSE Row(r, "initiateCall", "await", "", -1, NoCode,
             << CallsCreate(CallbackUrl(r, "/api/calls/twiml"),
                            r.body.toNumber, InitiateCallFrom(r, e),
                            CallbackUrl(r, "/api/calls/status"),
                            StatusEvents) >>,
             << >>)

InitiateCallThen(row, o) ==
    [row EXCEPT !.pc = "done", !.outcome = o,
                !.resp = Append(@, Json(200, "true",
                                        "Call initiated successfully",
                                        << o.sid, o.status >>))]

\* The catch block.  (_Retry: a variant that issues the call again.)
InitiateCallCatch_Retry(row, o) ==
    [row EXCEPT !.calls = Append(@, row.calls[1])]
InitiateCallCatch(row, o) ==
    [row EXCEPT !.pc = "done", !.outcome = o,
                !.resp = Append(@, Json(500, "false",
                                        OrElse(o.message,
                                               "Failed to initiate call"),
                                        << ErrorToString(o.message) >>))]

InitiateCall(A) ==
    \E r \in A :
        /\ Routed(r, "POST", "/api/calls/initiate")
        /\ Receive(InitiateCallStart(r, env))

(***************************************************************************)
(* DELETE /api/calls/end/:callSid, lines 205-239.  req.params.callSid is   *)
(* the segment the route matched.                                          *)
(***************************************************************************)
EndCallStart(r) ==
    IF ~Truthy(r.seg)
    THEN Answered(r, "endCall",
                  Json(400, "false", "Call SID is required", << >>))
    ELSE Row(r, "endCall", "await", "", -1, NoCode,
             << CallsUpdate(r.seg, "completed") >>, << >>)

EndCallThen(row, o) ==
    [row EXCEPT !.pc = "done", !.outcome = o,
                !.resp = Append(@, Json(200, "true",
                                        "Call ended successfully",
                                        << o.sid, o.status >>))]

EndCallCatch(row, o) ==
    [row EXCEPT !.pc = "done", !.outcome = o,
                !.resp = Append(@, Json(500, "false",
                                        OrElse(o.message, "Failed to end call"),
                                        << ErrorToString(o.message) >>))]

EndCall(A) ==
    \E r \in A :
        /\ Routed(r, "DELETE", EndCallPrefix)
        /\ Receive(EndCallStart(r))

(***************************************************************************)
(* POST /api/calls/twiml, lines 243-280.  The markup is the sequence of    *)
(* the verbs of the VoiceResponse.                                         *)
(***************************************************************************)
Dial(callerId, number) ==
    [verb |-> "Dial", callerId |-> callerId, answerOnBridge |-> TRUE,
     timeout |-> DialTimeout, nouns |-> << [noun |-> "Number", text |-> number] >>]

Say(text) ==
    [verb |-> "Say", voice |-> "alice", language |-> "en-US", text |-> text]

\* req.query.To || req.body.To  (_BodyFirst: the variant with the operands
\* exchanged.)
TwimlToNumber_BodyFirst(r) == OrElse(r.body.To, r.query.To)
TwimlToNumber(r) == OrElse(r.query.To, r.body.To)

TwimlMarkup(r, e) ==
    IF Truthy(TwimlToNumber(r))
    THEN << Dial(e.TWILIO_PHONE_NUMBER, TwimlToNumber(r)) >>
    ELSE << Say("No destination number was provided.") >>

Twiml(A) ==
    \E r \in A :
        /\ Routed(r, "POST", "/api/calls/twiml")
        /\ Receive(Answered(r, "twiml", Xml(TwimlMarkup(r, env))))

(***************************************************************************)
(* POST /api/calls/status, lines 283-294: logs, and res.sendStatus(200).   *)
(***************************************************************************)
CallStatus(A) ==
    \E r \in A :
        /\ Routed(r, "POST", "/api/calls/status")
        /\ Receive(Answered(r, "callStatus",
                            [Empty(200) EXCEPT !.type = "text/plain",
                                               !.message = "OK"]))

(***************************************************************************)
(* POST /api/messages/send, lines 298-332.                                 *)
(***************************************************************************)
MessageSendStart(r, e) ==
    IF ~Truthy(r.body.toNumber) \/ ~Truthy(r.body.message)
    THEN Answered(r, "messageSend",
                  Json(400, "false", "toNumber and message are required",
                       << >>))
    ELSE Row(r, "messageSend", "await", "", -1, NoCode,
             << MessagesCreate(r.body.toNumber, e.TWILIO_PHONE_NUMBER,
                               << r.body.message >>) >>,
             << >>)

MessageSendThen(row, o) ==
    [row EXCEPT !.pc = "done", !.outcome = o,
                !.resp = Append(@, Json(200, "true", "SMS sent successfully",
                                        << o.sid >>))]

MessageSendCatch(row, o) ==
    [row EXCEPT !.pc = "done", !.outcome = o,
                !.resp = Append(@, Json(500, "false",
                                        OrElse(o.message, "Failed to send SMS"),
                                        << >>))]

MessageSend(A) ==
    \E r \in A :
        /\ Routed(r, "POST", "/api/messages/send")
        /\ Receive(MessageSendStart(r, env))

(***************************************************************************)
(* POST /api/messages/receive, lines 334-344.                              *)
(***************************************************************************)
AutoReply(body) ==
    << [verb |-> "Message",
        text |-> << "Thank you for your message! We received: ", body >>] >>

MessageReceive(A) ==
    \E r \in A :
        /\ Routed(r, "POST", "/api/messages/receive")
        /\ Receive(Answered(r, "messageReceive", Xml(AutoReply(r.body.Body))))

(***************************************************************************)
(* The provider settles the promise a suspended handler awaits, and the    *)
(* handler runs to its end.                                                *)
(***************************************************************************)
Then(row, o) ==
    CASE row.handler = "otpSend" -> OtpSendThen(row, o)
      [] row.handler = "initiateCall" -> InitiateCallThen(row, o)
      [] row.handler = "endCall" -> EndCallThen(row, o)
      [] row.handler = "messageSend" -> MessageSendThen(row, o)

Catch(row, o) ==
    CASE row.handler = "otpSend" -> OtpSendCatch(row, o)
      [] row.handler = "initiateCall" -> InitiateCallCatch(row, o)
      [] row.handler = "endCall" -> EndCallCatch(row, o)
      [] row.handler = "messageSend" -> MessageSendCatch(row, o)

\* The row of the handler that the settling of request i's promise resumes:
\* the async function that awaits it.  (_Oldest: a variant that resumes the
\* handler that has waited longest.)
Resumed_Oldest(i) ==
    CHOOSE j \in DOMAIN reqs :
        /\ reqs[j].pc = "await"
        /\ \A k \in 1 .. (j - 1) : reqs[k].pc # "await"
Resumed(i) == i

ProviderResolves ==
    \E i \in DOMAIN reqs :
        /\ proc = "running"
        /\ reqs[i].pc = "await"
        /\ \E o \in Resources(reqs[i].calls[Len(reqs[i].calls)]) :
              reqs' = [reqs EXCEPT ![Resumed(i)] = Then(reqs[Resumed(i)], o)]
        /\ UNCHANGED <<env, proc>>

ProviderRejects ==
    \E i \in DOMAIN reqs :
        /\ proc = "running"
        /\ reqs[i].pc = "await"
        /\ \E m \in ErrorMessages :
              reqs' = [reqs EXCEPT
                          ![Resumed(i)] = Catch(reqs[Resumed(i)], Rejected(m))]
        /\ UNCHANGED <<env, proc>>

(***************************************************************************)
(* SIGTERM, lines 394-397: process.exit(0), whatever is in flight.         *)
(***************************************************************************)
Sigterm ==
    /\ proc = "running"
    /\ proc' = "exited"
    /\ UNCHANGED <<env, reqs>>

(***************************************************************************)
(* The requests the environment sends.                                     *)
(***************************************************************************)
Number1 == "+15551234567"
Number2 == "+15557654321"

\* "123", "100000", "abcdef", "1234567"
Code3 == << 49, 50, 51 >>
Code6 == << 49, 48, 48, 48, 48, 48 >>
CodeAlpha == << 97, 98, 99, 100, 101, 102 >>
Code7 == << 49, 50, 51, 52, 53, 54, 55 >>

OtpSendRequest(phoneNumber) ==
    [Request("POST", "/api/otp/send") EXCEPT !.body.phoneNumber = phoneNumber]

OtpVerifyRequest(phoneNumber, code) ==
    [Request("POST", "/api/otp/verify") EXCEPT
        !.body.phoneNumber = phoneNumber, !.body.code = code]

InitiateRequest(toNumber, fromNumber, protocol, host) ==
    [Request("POST", "/api/calls/initiate") EXCEPT
        !.body.toNumber = toNumber, !.body.fromNumber = fromNumber,
        !.protocol = protocol, !.host = host]

EndCallRequest(seg) ==
    [Request("DELETE", EndCallPrefix) EXCEPT !.seg = seg]

TwimlRequest(queryTo, bodyTo) ==
    [Request("POST", "/api/calls/twiml") EXCEPT
        !.query.To = queryTo, !.body.To = bodyTo]

MessageSendRequest(toNumber, message) ==
    [Request("POST", "/api/messages/send") EXCEPT
        !.body.toNumber = toNumber, !.body.message = message]

\* Every route, the middleware and the 404, each with a request that passes
\* its validation and requests that miss a required field.
AllRoutes ==
    { Request("GET", "/"), Request("HEAD", "/"),
      Request("OPTIONS", "/nope"),
      [Request("POST", "/nope") EXCEPT !.parse = "error"],
      Request("GET", "/nope"), Request("GET", "/api/otp/send"),
      Request("GET", "/api/voice/token"),
      [Request("GET", "/api/voice/token") EXCEPT !.query.identity = "alice"],
      OtpSendRequest(Undefined), OtpSendRequest(Number1),
      OtpVerifyRequest(Undefined, Code6), OtpVerifyRequest(Number1, NoCode),
      OtpVerifyRequest(Number1, Code6),
      InitiateRequest(Undefined, Number2, "http", "api.example"),
      InitiateRequest(Number1, Undefined, "http", "api.example"),
      InitiateRequest(Number1, Number2, "http", "api.example"),
      EndCallRequest(""), EndCallRequest("CA7"),
      TwimlRequest(Undefined, Undefined), TwimlRequest(Number1, Undefined),
      Request("POST", "/api/calls/status"),
      MessageSendRequest(Undefined, "hi"), MessageSendRequest(Number1, Undefined),
      MessageSendRequest(Number1, "hi"),
      [Request("POST", "/api/messages/receive") EXCEPT !.body.Body = "hi"] }

\* The k of the values k / RandDen that Math.random() returns.
RandLeast == {0}
RandSamples == {0, 1, RandDen \div 2, RandDen - 2, RandDen - 1}

Next ==
    \/ CorsPreflight(AllRoutes)
    \/ BodyParseError(AllRoutes)
    \/ HealthCheck(AllRoutes)
    \/ VoiceToken(AllRoutes)
    \/ OtpSend(AllRoutes, RandLeast)
    \/ OtpVerify(AllRoutes)
    \/ InitiateCall(AllRoutes)
    \/ EndCall(AllRoutes)
    \/ Twiml(AllRoutes)
    \/ CallStatus(AllRoutes)
    \/ MessageSend(AllRoutes)
    \/ MessageReceive(AllRoutes)
    \/ NotFound(AllRoutes)
    \/ ProviderResolves
    \/ ProviderRejects
    \/ Sigterm

Spec == Init /\ [][Next]_vars

(***************************************************************************)
(* The OTP service alone, with every kind of phone number and code.        *)
(***************************************************************************)
OtpRequests ==
    { OtpSendRequest(p) : p \in {Undefined, "", Number1} }
    \cup { OtpVerifyRequest(p, c) :
             p \in {Undefined, "", Number1},
             c \in {NoCode, << >>, Code3, Code6, CodeAlpha, Code7} }

InitConfigured ==
    /\ env = EnvAllSet
    /\ proc = "running"
    /\ reqs = << >>

NextOtp ==
    \/ OtpSend(OtpRequests, RandSamples)
    \/ OtpVerify(OtpRequests)
    \/ ProviderResolves
    \/ ProviderRejects

SpecOtp == InitConfigured /\ [][NextOtp]_vars

(***************************************************************************)
(* The call controller alone: call creation and the call-control markup.   *)
(***************************************************************************)
CallRequests ==
    { TwimlRequest(q, b) :
        q \in {Undefined, "", Number1, Number2},
        b \in {Undefined, "", Number1, Number2} }
    \cup { InitiateRequest(t, f, p, h) :
             t \in {Undefined, Number1}, f \in {Undefined, "", Number1, Number2},
             p \in {"http", "https"}, h \in {"api.example", "alt.example"} }

NextCalls ==
    \/ Twiml(CallRequests)
    \/ InitiateCall(CallRequests)
    \/ ProviderResolves
    \/ ProviderRejects

SpecCalls == InitConfigured /\ [][NextCalls]_vars

(***************************************************************************)
(* Properties.                                                             *)
(***************************************************************************)
\* The one response of a row that has answered.
Response(i) == reqs[i].resp[1]

\* The request of row i is a `method` request for `path` with a parsed body.
IsRequest(i, method, path) ==
    /\ reqs[i].req.method = method
    /\ reqs[i].req.path = path
    /\ reqs[i].req.parse = "ok"

\* C1: a request to POST /api/calls/twiml is answered with markup that, if
\* To is a non-empty string in the query or in the body, holds exactly one
\* Dial, whose number is that To (the query's when both have one), with
\* answerOnBridge true and a timeout of 30, and that otherwise holds exactly
\* one Say and no Dial.
C1_TwimlMarkup ==
    \A i \in DOMAIN reqs :
        IsRequest(i, "POST", "/api/calls/twiml") =>
            LET r == reqs[i].req
                markup == Response(i).data
                dials == {n \in DOMAIN markup : markup[n].verb = "Dial"}
                says == {n \in DOMAIN markup : markup[n].verb = "Say"}
                target == IF Truthy(r.query.To) THEN r.query.To ELSE r.body.To
            IN  /\ Len(reqs[i].resp) = 1
                /\ Response(i).type = "text/xml"
                /\ IF Truthy(r.query.To) \/ Truthy(r.body.To)
                   THEN /\ Cardinality(dials) = 1
                        /\ \A n \in dials :
                              /\ markup[n].nouns =
                                    << [noun |-> "Number", text |-> target] >>
                              /\ markup[n].answerOnBridge = TRUE
                              /\ markup[n].timeout = 30
                   ELSE /\ Cardinality(says) = 1
                        /\ dials = {}

\* Both branches have been taken: a Dial of the query's To where the body
\* names another number, and a Say where neither names one.
C1_Witness ==
    \E i, j \in DOMAIN reqs :
        /\ IsRequest(i, "POST", "/api/calls/twiml")
        /\ reqs[i].req.query.To = Number1
        /\ reqs[i].req.body.To = Number2
        /\ Response(i).data[1].verb = "Dial"
        /\ IsRequest(j, "POST", "/api/calls/twiml")
        /\ reqs[j].req.query.To = Undefined
        /\ reqs[j].req.body.To = Undefined
        /\ Response(j).data[1].verb = "Say"

\* C2: a POST /api/otp/verify request with a phone number and a code is
\* accepted (200, success) if the code has 6 characters and rejected (400)
\* if not, whatever its characters are and whatever was sent or verified
\* before it.
C2_VerifyByLengthOnly ==
    \A i \in DOMAIN reqs :
        ( /\ IsRequest(i, "POST", "/api/otp/verify")
          /\ Truthy(reqs[i].req.body.phoneNumber)
          /\ reqs[i].req.body.code # NoCode ) =>
            /\ Len(reqs[i].resp) = 1
            /\ IF Len(reqs[i].req.body.code) = 6
               THEN Response(i).status = 200 /\ Response(i).success = "true"
               ELSE Response(i).status = 400 /\ Response(i).success = "false"

\* After a code was issued and sent, a code of six letters, which is not the
\* one issued, was accepted.
C2_Witness ==
    \E i, j \in DOMAIN reqs :
        /\ i < j
        /\ reqs[i].handler = "otpSend"
        /\ reqs[i].outcome.ok = "resolved"
        /\ IsRequest(j, "POST", "/api/otp/verify")
        /\ reqs[j].req.body.code = CodeAlpha
        /\ reqs[j].req.body.code # reqs[i].otp
        /\ Response(j).status = 200

\* C3: a call of an endpoint that misses a required field (the phone number
\* of otp/send, the phone number or the code of otp/verify, toNumber or
\* fromNumber of calls/initiate, the callSid of calls/end, toNumber or
\* message of messages/send) is answered 400 with success false.
MissesRequiredField(i) ==
    LET b == reqs[i].req.body
    IN  \/ IsRequest(i, "POST", "/api/otp/send") /\ b.phoneNumber = Undefined
        \/ /\ IsRequest(i, "POST", "/api/otp/verify")
           /\ b.phoneNumber = Undefined \/ b.code = NoCode
        \/ /\ IsRequest(i, "POST", "/api/calls/initiate")
           /\ b.toNumber = Undefined \/ b.fromNumber = Undefined
        \/ IsRequest(i, "DELETE", EndCallPrefix) /\ reqs[i].req.seg = ""
        \/ /\ IsRequest(i, "POST", "/api/messages/send")
           /\ b.toNumber = Undefined \/ b.message = Undefined

C3_MissingFieldIs400 ==
    \A i \in DOMAIN reqs :
        MissesRequiredField(i) =>
            /\ Len(reqs[i].resp) = 1
            /\ Response(i).status = 400
            /\ Response(i).success = "false"

\* C4, as stated: a request whose method and path match no registered route
\* is answered 404 with success false and its path, by no registered
\* handler and with no provider call.
AnsweredNotFound(i) ==
    /\ reqs[i].handler = "notFound"
    /\ reqs[i].calls = << >>
    /\ Len(reqs[i].resp) = 1
    /\ Response(i).status = 404
    /\ Response(i).success = "false"
    /\ Response(i).data = << reqs[i].req.path \o reqs[i].req.seg >>

C4_Original ==
    \A i \in DOMAIN reqs :
        ~Registered(reqs[i].req) => AnsweredNotFound(i)

\* C4, amended: a request that is not an OPTIONS request, whose body the
\* parsers accept and whose method and path match no registered route is
\* answered 404 with success false and its path, by no registered handler
\* and with no provider call.
C4_UnmatchedIs404 ==
    \A i \in DOMAIN reqs :
        ( /\ reqs[i].req.method # "OPTIONS"
          /\ reqs[i].req.parse = "ok"
          /\ ~Registered(reqs[i].req) ) => AnsweredNotFound(i)

\* An unmatched path and an unmatched method have each been answered 404.
C4_Witness ==
    \E i, j \in DOMAIN reqs :
        /\ reqs[i].req = Request("GET", "/nope")
        /\ Response(i).status = 404
        /\ Response(i).data = << "/nope" >>
        /\ reqs[j].req = Request("GET", "/api/otp/send")
        /\ Response(j).status = 404

\* C5: a handler issues at most one provider call, and when the provider
\* rejects it the handler has finished with the one call it made and one
\* response: 500, success false, and the provider's error message when it
\* has one.
C5_NoRetry ==
    \A i \in DOMAIN reqs :
        /\ Len(reqs[i].calls) <= 1
        /\ reqs[i].pc = "await" => reqs[i].outcome = NoOutcome
        /\ reqs[i].outcome.ok = "rejected" =>
              /\ reqs[i].pc = "done"
              /\ Len(reqs[i].calls) = 1
              /\ Len(reqs[i].resp) = 1
              /\ Response(i).status = 500
              /\ Response(i).success = "false"
              /\ reqs[i].outcome.message # "" =>
                    Response(i).message = reqs[i].outcome.message

\* The provider rejected the calls of two handlers, one with a message, which
\* the response carries.
C5_Witness ==
    \E i, j \in DOMAIN reqs :
        /\ reqs[i].handler = "initiateCall"
        /\ reqs[i].outcome = Rejected("Authenticate")
        /\ Response(i).status = 500
        /\ Response(i).message = "Authenticate"
        /\ reqs[j].handler = "otpSend"
        /\ reqs[j].outcome.ok = "rejected"
        /\ Len(reqs[j].calls) = 1

\* C6, as stated: what a request is answered, and the provider call made
\* for it, are determined by the request, the configuration and the
\* provider's result for it.
C6_Original ==
    \A i, j \in DOMAIN reqs :
        ( /\ reqs[i].req = reqs[j].req
          /\ reqs[i].outcome = reqs[j].outcome ) =>
            /\ reqs[i].calls = reqs[j].calls
            /\ reqs[i].resp = reqs[j].resp

\* Two rows with the same request, the same readings of the clock and of the
\* random source, and the same result from the provider.
SameInputs(i, j) ==
    /\ reqs[i].req = reqs[j].req
    /\ reqs[i].now = reqs[j].now
    /\ reqs[i].rnd = reqs[j].rnd
    /\ reqs[i].outcome = reqs[j].outcome

Determined ==
    \A i, j \in DOMAIN reqs :
        SameInputs(i, j) =>
            /\ reqs[i].calls = reqs[j].calls
            /\ reqs[i].resp = reqs[j].resp

\* A step changes no row but one, and that one only as the settling of the
\* promise of its own provider call: no row is removed, a request that
\* arrives is a new row, and a row that changes was suspended and now holds
\* a result the provider gives for the call it issued.
Isolated ==
    /\ Len(reqs') >= Len(reqs)
    /\ \A i \in DOMAIN reqs :
          reqs'[i] # reqs[i] =>
              /\ reqs[i].pc = "await"
              /\ Len(reqs') = Len(reqs)
              /\ \A j \in DOMAIN reqs : j # i => reqs'[j] = reqs[j]
              /\ reqs'[i].req = reqs[i].req
              /\ reqs'[i].calls = reqs[i].calls
              /\ \/ reqs'[i].outcome \in Resources(reqs[i].calls[1])
                 \/ reqs'[i].outcome.ok = "rejected"

\* C6, amended: what a request is answered, and the provider call made for
\* it, are determined by the request, the configuration, the provider's
\* result for it and what the clock and the random source returned to its
\* handler; and the settling of a provider call resumes the handler of the
\* request that issued it and touches no other request.
C6_NoCrossRequestState == []Determined /\ [][Isolated]_vars

\* Two requests with the same inputs were in flight together, each was
\* answered on the resolution of its own call, and the answers are the same.
C6_Witness ==
    \E i, j \in DOMAIN reqs :
        /\ i < j
        /\ SameInputs(i, j)
        /\ reqs[i].handler = "otpSend"
        /\ reqs[i].outcome.ok = "resolved"
        /\ reqs[i].resp = reqs[j].resp
        /\ Len(reqs[i].resp) = 1

\* C7: the call created for POST /api/calls/initiate is from the configured
\* system number; two requests that differ only in their non-empty
\* fromNumber create the same call; and a request without a fromNumber
\* creates none.
C7_FromNumberUnused ==
    \A i \in DOMAIN reqs :
        IsRequest(i, "POST", "/api/calls/initiate") =>
            /\ ~Truthy(reqs[i].req.body.fromNumber) => reqs[i].calls = << >>
            /\ \A n \in DOMAIN reqs[i].calls :
                  reqs[i].calls[n].from = env.TWILIO_PHONE_NUMBER
            /\ \A j \in DOMAIN reqs :
                  ( /\ Truthy(reqs[i].req.body.fromNumber)
                    /\ Truthy(reqs[j].req.body.fromNumber)
                    /\ reqs[j].req =
                          [reqs[i].req EXCEPT
                              !.body.fromNumber = reqs[j].req.body.fromNumber] )
                  => reqs[j].calls = reqs[i].calls

\* Two requests with the same toNumber and host and different fromNumbers
\* each created a call.
C7_Witness ==
    \E i, j \in DOMAIN reqs :
        /\ reqs[i].req = InitiateRequest(Number1, Number1, "https", "api.example")
        /\ reqs[j].req = InitiateRequest(Number1, Number2, "https", "api.example")
        /\ Len(reqs[i].calls) = 1
        /\ Len(reqs[j].calls) = 1
        /\ reqs[i].calls[1].from = SystemNumber

\* The number a sequence of ASCII digits writes.
RECURSIVE DecimalValue(_)
DecimalValue(digits) ==
    IF digits = << >> THEN 0
    ELSE 10 * DecimalValue(SubSeq(digits, 1, Len(digits) - 1))
         + (digits[Len(digits)] - 48)

\* C8: the code an OTP send generates is 6 ASCII digits that write a number
\* from 100000 to 999999, and it is the code in the body of the SMS and, once
\* the SMS is sent, the code in the response.
C8_OtpCode ==
    \A i \in DOMAIN reqs :
        (reqs[i].handler = "otpSend" /\ reqs[i].rnd >= 0) =>
            LET otp == reqs[i].otp
            IN  /\ Len(otp) = 6
                /\ \A n \in DOMAIN otp : otp[n] \in AsciiDigits
                /\ DecimalValue(otp) >= 100000
                /\ DecimalValue(otp) <= 999999
                /\ Len(reqs[i].calls) = 1
                /\ reqs[i].calls[1].body[2] = otp
                /\ reqs[i].outcome.ok = "resolved" =>
                      Response(i).data[2] = otp

\* The least and the greatest value of the random source each gave a code,
\* "100000" and "999999", which was sent and returned.
C8_Witness ==
    \E i, j \in DOMAIN reqs :
        /\ reqs[i].rnd = 0
        /\ reqs[i].otp = << 49, 48, 48, 48, 48, 48 >>
        /\ reqs[j].rnd = RandDen - 1
        /\ reqs[j].otp = << 57, 57, 57, 57, 57, 57 >>
        /\ reqs[j].outcome.ok = "resolved"
        /\ Response(j).status = 200
        /\ Response(j).data[2] = reqs[j].otp

\* C9: with a credential missing, GET /api/voice/token is answered 500 with
\* success false and the message of the error the token library threw, and
\* the requests that arrive after it are answered.
C9_TokenFailure ==
    \A i \in DOMAIN reqs :
        ( /\ IsRequest(i, "GET", "/api/voice/token")
          /\ \/ env.TWILIO_API_KEY = Undefined
             \/ env.TWILIO_API_SECRET = Undefined ) =>
            /\ reqs[i].handler = "voiceToken"
            /\ Len(reqs[i].resp) = 1
            /\ Response(i).status = 500
            /\ Response(i).success = "false"
            /\ Response(i).message =
                  IF env.TWILIO_API_KEY = Undefined
                  THEN "keySid is required"
                  ELSE "secret is required"
            /\ \A j \in DOMAIN reqs :
                  (j > i /\ reqs[j].pc = "done") => Len(reqs[j].resp) = 1

\* After a token request failed the process runs, and a later request was
\* answered 200.
C9_Witness ==
    \E i, j \in DOMAIN reqs :
        /\ i < j
        /\ IsRequest(i, "GET", "/api/voice/token")
        /\ Response(i).status = 500
        /\ Response(i).message = "keySid is required"
        /\ reqs[j].handler = "otpVerify"
        /\ Response(j).status = 200
        /\ proc = "running"

\* C10: a request that otp/send, calls/initiate, calls/end or messages/send
\* answers 400 has made no provider call and has one response.
C10_ValidationFirst ==
    \A i \in DOMAIN reqs :
        ( /\ reqs[i].handler \in
                {"otpSend", "initiateCall", "endCall", "messageSend"}
          /\ reqs[i].resp # << >>
          /\ Response(i).status = 400 ) =>
            /\ reqs[i].calls = << >>
            /\ Len(reqs[i].resp) = 1
            /\ reqs[i].pc = "done"

\* Requests without a required field were rejected by otp/send and by
\* calls/initiate.
C10_Witness ==
    \E i, j \in DOMAIN reqs :
        /\ reqs[i].handler = "otpSend"
        /\ reqs[i].req.body.phoneNumber = Undefined
        /\ Response(i).status = 400
        /\ reqs[j].handler = "initiateCall"
        /\ reqs[j].req.body.fromNumber = Undefined
        /\ Response(j).status = 400

====
